---- MODULE Spec2Model ----
\* Model of server/index.js: the in-memory employee directory behind a
\* GraphQL API (login, employees/employee queries, addEmployee and
\* updateEmployee mutations) with its JWT access gate.
\*
\* Encoding of JavaScript values:
\*   - a name is the sequence of its UTF-16 code units (so that toLowerCase,
\*     includes and the relational operators act on characters);
\*   - className, usernames, passwords and ids are strings (only compared
\*     with ===), an id being "e" followed by a decimal number;
\*   - a nullable Boolean is one of "true", "false", "null";
\*   - createdAt is the number of hours since 2024-01-01T00:00Z; the code
\*     compares the ISO-8601 strings, whose lexical order is the order of
\*     these numbers;
\*   - an object is a function from its keys, an absent key being outside
\*     its DOMAIN; an optional value is a sequence of length 0 or 1.
EXTENDS Integers, Sequences, FiniteSets, TLC

VARIABLES employees, clock, req, resp

vars == <<employees, clock, req, resp>>

\* ---------------------------------------------------------------- bounds
MaxEmployees == 4
MaxListed == 5
MaxClock == 2
StartTime == 9000

\* --------------------------------------------------------------- strings
Max(a, b) == IF a > b THEN a ELSE b

Min(a, b) == IF a < b THEN a ELSE b

toLowerCase(s) == [i \in 1..Len(s) |-> IF s[i] >= 65 /\ s[i] <= 90 THEN s[i] + 32 ELSE s[i]]

includes(s, q) == \E k \in 0..(Len(s) - Len(q)) : \A i \in 1..Len(q) : s[k + i] = q[i]

RECURSIVE StrLess(_, _)
StrLess(a, b) ==
    IF b = <<>> THEN FALSE
    ELSE IF a = <<>> THEN TRUE
    ELSE IF Head(a) # Head(b) THEN Head(a) < Head(b)
    ELSE StrLess(Tail(a), Tail(b))

\* ------------------------------------------------------------------ data
JWT_SECRET == "supersecret-key"

TokenTTL == 2

users ==
    << [id |-> "1", username |-> "admin", password |-> "admin123", role |-> "ADMIN"],
       [id |-> "2", username |-> "john", password |-> "john123", role |-> "EMPLOYEE"] >>

AliceJohnson == <<65, 108, 105, 99, 101, 32, 74, 111, 104, 110, 115, 111, 110>>

BobSingh == <<66, 111, 98, 32, 83, 105, 110, 103, 104>>

ClaraLee == <<67, 108, 97, 114, 97, 32, 76, 101, 101>>

seedEmployees ==
    << [id |-> "e1", name |-> AliceJohnson, age |-> 29, className |-> "Class A",
        subjects |-> <<"Math", "Science">>, attendance |-> 96, flagged |-> "false",
        createdAt |-> 264],
       [id |-> "e2", name |-> BobSingh, age |-> 34, className |-> "Class B",
        subjects |-> <<"English", "History">>, attendance |-> 89, flagged |-> "true",
        createdAt |-> 1440],
       [id |-> "e3", name |-> ClaraLee, age |-> 26, className |-> "Class A",
        subjects |-> <<"Biology", "Chemistry">>, attendance |-> 92, flagged |-> "false",
        createdAt |-> 3384] >>

\* ------------------------------------------------------------ access gate
\* jwt.sign(payload, secret, {expiresIn: '2h'}) at time now.
jwtSign(payload, secret, now) ==
    [payload |-> payload, sig |-> secret, iat |-> now, exp |-> now + TokenTTL]

\* jwt.verify(token, secret) at time now: <<payload>>, or <<>> when it throws.
jwtVerify(token, secret, now) ==
    IF token.sig = secret /\ now < token.exp THEN <<token.payload>> ELSE <<>>

\* The Authorization header: <<>> (none), <<"Basic">> (not a bearer
\* credential) or <<"Bearer", token>>.
createContext(auth, now) ==
    IF Len(auth) = 2 /\ auth[1] = "Bearer"
    THEN [user |-> jwtVerify(auth[2], JWT_SECRET, now)]
    ELSE [user |-> <<>>]

\* "" when the check passes, else the message of the Error thrown.
requireAuth(context) ==
    IF context.user = <<>> THEN "Not authenticated" ELSE ""

\* requireRole without its role check.
requireRole_anyUser(context, roles) == requireAuth(context)

requireRole(context, roles) ==
    IF requireAuth(context) # "" THEN requireAuth(context)
    ELSE IF context.user[1].role \notin roles THEN "Not authorized"
    ELSE ""

\* -------------------------------------------------------- query pipeline
\* The key the comparator of sortEmployees reads for a sort field.
sortKey(e, field) ==
    CASE field = "NAME" -> toLowerCase(e.name)
      [] field = "AGE" -> e.age
      [] field = "ATTENDANCE" -> e.attendance
      [] field = "CREATED_AT" -> e.createdAt
      [] OTHER -> 0

\* av < bv as JavaScript evaluates it: on strings for NAME, else on numbers.
jsLess(av, bv, field) ==
    IF field = "NAME" THEN StrLess(av, bv) ELSE av < bv

\* The comparator handed to Array.prototype.sort.
compare(a, b, sort) ==
    LET dir == IF sort.order = "DESC" THEN -1 ELSE 1
        av == sortKey(a, sort.field)
        bv == sortKey(b, sort.field)
    IN  IF jsLess(av, bv, sort.field) THEN -1 * dir
        ELSE IF jsLess(bv, av, sort.field) THEN 1 * dir
        ELSE 0

\* Array.prototype.sort is a stable sort (ECMAScript 2019): an element is
\* placed before the first element that the comparator puts after it.
RECURSIVE sortInsert(_, _, _)
sortInsert(sorted, x, sort) ==
    IF sorted = <<>> THEN <<x>>
    ELSE IF compare(Head(sorted), x, sort) > 0 THEN <<x>> \o sorted
    ELSE <<Head(sorted)>> \o sortInsert(Tail(sorted), x, sort)

RECURSIVE arraySort(_, _, _)
arraySort(done, todo, sort) ==
    IF todo = <<>> THEN done
    ELSE arraySort(sortInsert(done, Head(todo), sort), Tail(todo), sort)

RECURSIVE reverse(_)
reverse(list) == IF list = <<>> THEN <<>> ELSE Append(reverse(Tail(list)), Head(list))

\* DESC obtained by reversing the ascending sort.
sortEmployees_reversed(list, sort) ==
    IF sort = <<>> THEN list
    ELSE IF sort[1].order = "DESC"
         THEN reverse(arraySort(<<>>, list, [field |-> sort[1].field, order |-> "ASC"]))
         ELSE arraySort(<<>>, list, sort[1])

sortEmployees(list, sort) ==
    IF sort = <<>> THEN list ELSE arraySort(<<>>, list, sort[1])

\* A filter is an object whose keys nameContains, className, minAttendance
\* are each present or not.
filterEmployees(list, filter) ==
    IF filter = <<>> THEN list
    ELSE
      LET f == filter[1]
          byName(e) == includes(toLowerCase(e.name), toLowerCase(f.nameContains))
          byClass(e) == e.className = f.className
          byAttendance(e) == e.attendance >= f.minAttendance
          r1 == IF "nameContains" \in DOMAIN f /\ f.nameContains # <<>>
                THEN SelectSeq(list, byName) ELSE list
          r2 == IF "className" \in DOMAIN f /\ f.className # ""
                THEN SelectSeq(r1, byClass) ELSE r1
          r3 == IF "minAttendance" \in DOMAIN f
                THEN SelectSeq(r2, byAttendance) ELSE r2
      IN  r3

\* Array.prototype.slice(start, end): a negative index counts from the end,
\* and both indices are clamped to the bounds of the list.
slice(list, start, end) ==
    LET len == Len(list)
        k == IF start < 0 THEN Max(len + start, 0) ELSE Min(start, len)
        final == IF end < 0 THEN Max(len + end, 0) ELSE Min(end, len)
    IN  IF final > k THEN SubSeq(list, k + 1, final) ELSE <<>>

\* ------------------------------------------------------------- resolvers
\* A response carries the message of the Error thrown ("" when none) and
\* the value returned, if any.
Failure(msg) == [error |-> msg, data |-> <<>>]

Success(value) == [error |-> "", data |-> <<value>>]

\* The employees query slicing one element too far.
Query_employees_offByOne(store, args, context) ==
    LET page == IF args.page = <<>> THEN 1 ELSE args.page[1]
        pageSize == IF args.pageSize = <<>> THEN 10 ELSE args.pageSize[1]
        list == sortEmployees(filterEmployees(store, args.filter), args.sort)
        start == (page - 1) * pageSize
    IN  Success([items |-> slice(list, start, start + pageSize + 1), totalCount |-> Len(list),
                 page |-> page, pageSize |-> pageSize])

Query_employees(store, args, context) ==
    LET page == IF args.page = <<>> THEN 1 ELSE args.page[1]
        pageSize == IF args.pageSize = <<>> THEN 10 ELSE args.pageSize[1]
        list == sortEmployees(filterEmployees(store, args.filter), args.sort)
        totalCount == Len(list)
        start == (page - 1) * pageSize
        end == start + pageSize
        items == slice(list, start, end)
    IN  Success([items |-> items, totalCount |-> totalCount,
                 page |-> page, pageSize |-> pageSize])

\* The employee query behind requireAuth.
Query_employee_authed(store, id, context) ==
    LET found == SelectSeq(store, LAMBDA e : e.id = id)
    IN  IF requireAuth(context) # "" THEN Failure(requireAuth(context))
        ELSE [error |-> "", data |-> IF found = <<>> THEN <<>> ELSE <<Head(found)>>]

\* employees.find(...) || null: the data is <<record>> or <<>> for null.
Query_employee(store, id, context) ==
    LET found == SelectSeq(store, LAMBDA e : e.id = id)
    IN  [error |-> "", data |-> IF found = <<>> THEN <<>> ELSE <<Head(found)>>]

Query_me(context) == [error |-> "", data |-> context.user]

\* login looking the user up by username alone.
Mutation_login_byName(username, password, now) ==
    LET found == SelectSeq(users, LAMBDA u : u.username = username)
    IN  IF found = <<>> THEN Failure("Invalid credentials")
        ELSE LET user == Head(found)
                 payload == [id |-> user.id, username |-> user.username, role |-> user.role]
             IN  Success([token |-> jwtSign(payload, JWT_SECRET, now),
                          user |-> [id |-> user.id, username |-> user.username,
                                    role |-> user.role]])

Mutation_login(username, password, now) ==
    LET found == SelectSeq(users, LAMBDA u : u.username = username /\ u.password = password)
    IN  IF found = <<>> THEN Failure("Invalid credentials")
        ELSE LET user == Head(found)
                 payload == [id |-> user.id, username |-> user.username, role |-> user.role]
             IN  Success([token |-> jwtSign(payload, JWT_SECRET, now),
                          user |-> [id |-> user.id, username |-> user.username,
                                    role |-> user.role]])

\* nextId counting from the current length.
nextId_length(store) == "e" \o ToString(Len(store))

\* The id addEmployee gives the next record.
nextId(store) == "e" \o ToString(Len(store) + 1)

\* input.flagged ?? false
flaggedOrDefault(input) ==
    IF "flagged" \in DOMAIN input /\ input.flagged # "null" THEN input.flagged ELSE "false"

newEmployee(store, input, now) ==
    [id |-> nextId(store), name |-> input.name, age |-> input.age,
     className |-> input.className, subjects |-> input.subjects,
     attendance |-> input.attendance, flagged |-> flaggedOrDefault(input),
     createdAt |-> StartTime + now]

\* The spread with its operands exchanged.
spread_reversed(a, b) ==
    [k \in (DOMAIN a) \cup (DOMAIN b) |-> IF k \in DOMAIN a THEN a[k] ELSE b[k]]

\* {...a, ...b}
spread(a, b) ==
    [k \in (DOMAIN a) \cup (DOMAIN b) |-> IF k \in DOMAIN b THEN b[k] ELSE a[k]]

\* employees.findIndex(...): 0 stands for -1, indices being 1-based here.
findIndex(store, id) ==
    IF \E i \in 1..Len(store) : store[i].id = id
    THEN CHOOSE i \in 1..Len(store) :
            store[i].id = id /\ \A j \in 1..(i - 1) : store[j].id # id
    ELSE 0

Mutation_addEmployee(store, input, context, now) ==
    LET err == requireRole(context, {"ADMIN"})
        employee == newEmployee(store, input, now)
    IN  IF err # "" THEN [store |-> store, resp |-> Failure(err)]
        ELSE [store |-> Append(store, employee), resp |-> Success(employee)]

\* updateEmployee without its check of the index found.
Mutation_updateEmployee_upsert(store, id, input, context) ==
    LET err == requireRole(context, {"ADMIN"})
        idx == findIndex(store, id)
    IN  IF err # "" THEN [store |-> store, resp |-> Failure(err)]
        ELSE IF idx = 0 THEN [store |-> Append(store, input), resp |-> Success(input)]
        ELSE [store |-> [store EXCEPT ![idx] = spread(store[idx], input)],
              resp |-> Success(spread(store[idx], input))]

Mutation_updateEmployee(store, id, input, context) ==
    LET err == requireRole(context, {"ADMIN"})
        idx == findIndex(store, id)
        merged == spread(store[idx], input)
    IN  IF err # "" THEN [store |-> store, resp |-> Failure(err)]
        ELSE IF idx = 0 THEN [store |-> store, resp |-> Failure("Employee not found")]
        ELSE [store |-> [store EXCEPT ![idx] = merged], resp |-> Success(merged)]

\* ---------------------------------------------------------------- inputs
publicUser(u) == [id |-> u.id, username |-> u.username, role |-> u.role]

\* Tokens a client can present at time now: those login has issued since
\* the start, and tokens signed with a key that is not the server's.
IssuedTokens(now) ==
    { jwtSign(publicUser(users[1]), JWT_SECRET, iat) : iat \in {0, now} }
    \cup { jwtSign(publicUser(users[2]), JWT_SECRET, now) }

ForgedTokens(now) ==
    { jwtSign(publicUser(users[1]), "not-the-key", now) }

Headers(now) ==
    {<<>>, <<"Basic">>} \cup { <<"Bearer", t>> : t \in IssuedTokens(now) \cup ForgedTokens(now) }

AdminHeaders(now) ==
    { <<"Bearer", jwtSign(publicUser(users[1]), JWT_SECRET, now)>> }

alicejohnson == <<97, 108, 105, 99, 101, 32, 106, 111, 104, 110, 115, 111, 110>>

Zed == <<90, 101, 100>>

\* An EmployeeInput: the five required fields, and flagged when given.
mkInput(name, age, className, subjects, attendance, flagged) ==
    [k \in {"name", "age", "className", "subjects", "attendance"}
           \cup (IF flagged = <<>> THEN {} ELSE {"flagged"}) |->
        CASE k = "name" -> name
          [] k = "age" -> age
          [] k = "className" -> className
          [] k = "subjects" -> subjects
          [] k = "attendance" -> attendance
          [] k = "flagged" -> flagged[1]]

FlaggedChoices == {<<>>, <<"null">>, <<"true">>, <<"false">>}

EmployeeInputs ==
    { mkInput(Zed, 41, "Class B", <<"Art", "Art">>, 70, fl) : fl \in FlaggedChoices }

ListedInputs ==
    { mkInput(alicejohnson, 29, "Class A", <<"Math">>, 96, <<>>),
      mkInput(Zed, 34, "", <<>>, 0, <<"true">>) }

UpdateIds == {"e1", "e9"}

ListedUpdateIds == {"e2"}

mkFilter(nameContains, className, minAttendance) ==
    [k \in (IF nameContains = <<>> THEN {} ELSE {"nameContains"})
           \cup (IF className = <<>> THEN {} ELSE {"className"})
           \cup (IF minAttendance = <<>> THEN {} ELSE {"minAttendance"}) |->
        CASE k = "nameContains" -> nameContains[1]
          [] k = "className" -> className[1]
          [] k = "minAttendance" -> minAttendance[1]]

Filters ==
    {<<>>} \cup
    { <<mkFilter(n, c, m)>> :
        n \in {<<>>, <<<<>>>>, <<<<65, 76>>>>, <<<<122>>>>},
        c \in {<<>>, <<"">>, <<"Class A">>},
        m \in {<<>>, <<0>>, <<92>>} }

Sorts ==
    {<<>>} \cup
    { <<[field |-> f, order |-> o]>> :
        f \in {"NAME", "AGE", "ATTENDANCE", "CREATED_AT"}, o \in {"ASC", "DESC"} }

Pages == {<<>>, <<-1>>, <<0>>, <<1>>, <<2>>, <<3>>}

PageSizes == {<<>>, <<-1>>, <<0>>, <<1>>, <<2>>}

\* Every filter on its own, every sort over two filters, and every page
\* and page size over two filters and three sorts.
ListArgs ==
    { [filter |-> f, sort |-> <<>>, page |-> <<>>, pageSize |-> <<>>] : f \in Filters }
    \cup { [filter |-> f, sort |-> s, page |-> <<>>, pageSize |-> <<>>] :
             f \in {<<>>, <<mkFilter(<<>>, <<>>, <<92>>)>>}, s \in Sorts }
    \cup { [filter |-> f, sort |-> s, page |-> p, pageSize |-> z] :
             f \in {<<>>, <<mkFilter(<<>>, <<"Class A">>, <<>>)>>},
             s \in {<<>>, <<[field |-> "NAME", order |-> "ASC"]>>,
                     <<[field |-> "ATTENDANCE", order |-> "DESC"]>>},
             p \in Pages, z \in PageSizes }

\* The query the client issues, and one with a filter, a sort and a page.
FewListArgs ==
    { [filter |-> <<>>, sort |-> <<>>, page |-> <<1>>, pageSize |-> <<10>>],
      [filter |-> <<mkFilter(<<>>, <<"Class A">>, <<>>)>>,
       sort |-> <<[field |-> "ATTENDANCE", order |-> "DESC"]>>,
       page |-> <<2>>, pageSize |-> <<1>>] }

LookupIds == {"e1", "e4"}

Usernames == {"admin", "john", "Admin"}

Passwords == {"admin123", "john123", "wrong"}

\* ------------------------------------------------------------ operations
Request(op, auth, args) ==
    [op |-> op, auth |-> auth, context |-> createContext(auth, clock), args |-> args]

Init ==
    /\ employees = seedEmployees
    /\ clock = 0
    /\ req = [op |-> "none", auth |-> <<>>, context |-> [user |-> <<>>], args |-> <<>>]
    /\ resp = [error |-> "", data |-> <<>>]

Login ==
    \E username \in Usernames, password \in Passwords :
        /\ req' = Request("login", <<>>, [username |-> username, password |-> password])
        /\ resp' = Mutation_login(username, password, clock)
        /\ UNCHANGED <<employees, clock>>

Me ==
    \E auth \in Headers(clock) :
        /\ req' = Request("me", auth, <<>>)
        /\ resp' = Query_me(createContext(auth, clock))
        /\ UNCHANGED <<employees, clock>>

ListEmployees(auths, argSet) ==
    \E auth \in auths, args \in argSet :
        /\ req' = Request("employees", auth, args)
        /\ resp' = Query_employees(employees, args, createContext(auth, clock))
        /\ UNCHANGED <<employees, clock>>

GetEmployee ==
    \E auth \in Headers(clock), id \in LookupIds :
        /\ req' = Request("employee", auth, [id |-> id])
        /\ resp' = Query_employee(employees, id, createContext(auth, clock))
        /\ UNCHANGED <<employees, clock>>

AddEmployee(auths, inputs, cap) ==
    \E auth \in auths, input \in inputs :
        LET r == Mutation_addEmployee(employees, input, createContext(auth, clock), clock)
        IN  /\ Len(r.store) <= cap
            /\ req' = Request("addEmployee", auth, [input |-> input])
            /\ resp' = r.resp
            /\ employees' = r.store
            /\ UNCHANGED clock

UpdateEmployee(auths, ids, inputs) ==
    \E auth \in auths, id \in ids, input \in inputs :
        LET r == Mutation_updateEmployee(employees, id, input, createContext(auth, clock))
        IN  /\ req' = Request("updateEmployee", auth, [id |-> id, input |-> input])
            /\ resp' = r.resp
            /\ employees' = r.store
            /\ UNCHANGED clock

\* Time passes between two requests.
Tick ==
    /\ clock < MaxClock
    /\ clock' = clock + 1
    /\ UNCHANGED <<employees, req, resp>>

Next ==
    \/ Login
    \/ Me
    \/ ListEmployees(Headers(clock), FewListArgs)
    \/ GetEmployee
    \/ AddEmployee(Headers(clock), EmployeeInputs, MaxEmployees)
    \/ UpdateEmployee(Headers(clock), UpdateIds, EmployeeInputs)
    \/ Tick

Spec == Init /\ [][Next]_vars

\* The query pipeline on its own: an administrator fills the directory, and
\* the directory is listed with every combination of arguments.
NextList ==
    \/ AddEmployee(AdminHeaders(clock), ListedInputs, MaxListed)
    \/ UpdateEmployee(AdminHeaders(clock), ListedUpdateIds, ListedInputs)
    \/ ListEmployees({<<>>}, ListArgs)

SpecList == Init /\ [][NextList]_vars

\* ---------------------------------------------------------------- claims
\* A step that handles a request of one of the given operations.
Handles(ops) == clock' = clock /\ req'.op \in ops

Mutations == {"addEmployee", "updateEmployee"}

Ids(store) == { store[i].id : i \in 1..Len(store) }

\* The header carries no bearer token that the server's key verifies now.
NoValidCredential(auth, now) ==
    \/ Len(auth) # 2
    \/ auth[1] # "Bearer"
    \/ auth[2].sig # JWT_SECRET
    \/ now >= auth[2].exp

\* C1: addEmployee and updateEmployee fail with "Not authenticated" when the
\* request has no verified user and with "Not authorized" when the user's
\* role is EMPLOYEE, the collection staying as it was; the collection only
\* changes in a mutation made with an ADMIN context.
C1_MutationsGated ==
    [][/\ Handles(Mutations) =>
            /\ NoValidCredential(req'.auth, clock) => req'.context.user = <<>>
            /\ req'.context.user = <<>> =>
                   resp'.error = "Not authenticated" /\ employees' = employees
            /\ (req'.context.user # <<>> /\ req'.context.user[1].role = "EMPLOYEE") =>
                   resp'.error = "Not authorized" /\ employees' = employees
       /\ employees' # employees =>
            /\ req'.op \in Mutations
            /\ req'.context.user # <<>>
            /\ req'.context.user[1].role = "ADMIN"]_vars

\* An update presented with an expired token of the administrator is refused.
C1_Witness ==
    /\ req.op = "updateEmployee"
    /\ Len(req.auth) = 2
    /\ req.auth[2].sig = JWT_SECRET
    /\ req.auth[2].payload.role = "ADMIN"
    /\ req.context.user = <<>>
    /\ resp.error = "Not authenticated"

\* C2: no two records of the collection have the same id, and the id that
\* addEmployee assigns differs from the id of every record already there.
C2_UniqueIds ==
    /\ [](\A i, j \in 1..Len(employees) : employees[i].id = employees[j].id => i = j)
    /\ [][(Handles({"addEmployee"}) /\ resp'.error = "") =>
              /\ resp'.data[1].id \notin Ids(employees)
              /\ employees' = Append(employees, resp'.data[1])]_vars

\* A record has been added and a record has then been updated.
C2_Witness ==
    /\ Len(employees) > Len(seedEmployees)
    /\ req.op = "updateEmployee"
    /\ resp.error = ""

\* C3: updateEmployee by an ADMIN context with an id that matches no record
\* fails with "Employee not found" and leaves the collection unchanged.
C3_UpdateMissing ==
    [][(/\ Handles({"updateEmployee"})
        /\ req'.context.user # <<>>
        /\ req'.context.user[1].role = "ADMIN"
        /\ req'.args.id \notin Ids(employees)) =>
            /\ resp'.error = "Employee not found"
            /\ resp'.data = <<>>
            /\ employees' = employees]_vars

C3_Witness ==
    /\ req.op = "updateEmployee"
    /\ req.args.id \notin Ids(employees)
    /\ resp.error = "Employee not found"

\* C4: a successful updateEmployee(id, input) changes only the record with
\* that id, which keeps its id and createdAt, takes every field the input
\* supplies and keeps every field the input omits; the other records and
\* the order of the collection are unchanged.
C4_UpdateFrame ==
    [][(Handles({"updateEmployee"}) /\ resp'.error = "") =>
          \E idx \in 1..Len(employees) :
              /\ employees[idx].id = req'.args.id
              /\ Len(employees') = Len(employees)
              /\ \A j \in 1..Len(employees) : j # idx => employees'[j] = employees[j]
              /\ DOMAIN employees'[idx] = DOMAIN employees[idx]
              /\ employees'[idx].id = employees[idx].id
              /\ employees'[idx].createdAt = employees[idx].createdAt
              /\ \A k \in DOMAIN req'.args.input :
                     employees'[idx][k] = req'.args.input[k]
              /\ \A k \in (DOMAIN employees[idx]) \ (DOMAIN req'.args.input) :
                     employees'[idx][k] = employees[idx][k]
              /\ resp'.data = <<employees'[idx]>>]_vars

\* An update that omits flagged has kept the value an earlier update gave.
C4_Witness ==
    /\ req.op = "updateEmployee"
    /\ resp.error = ""
    /\ "flagged" \notin DOMAIN req.args.input
    /\ employees[1].name = req.args.input.name
    /\ employees[1].flagged = "true"
    /\ employees[1].createdAt = seedEmployees[1].createdAt

C9_Login ==
    req.op = "login" =>
        LET match == { i \in DOMAIN users : /\ users[i].username = req.args.username
                                            /\ users[i].password = req.args.password }
        IN  /\ resp.error = "" <=> match # {}
            /\ match = {} => resp.error = "Invalid credentials" /\ resp.data = <<>>
            /\ match # {} =>
                 \E i \in match :
                    /\ DOMAIN resp.data[1].user = {"id", "username", "role"}
                    /\ resp.data[1].user.id = users[i].id
                    /\ resp.data[1].user.username = users[i].username
                    /\ resp.data[1].user.role = users[i].role
                    /\ resp.data[1].token.payload = resp.data[1].user

C9_Witness ==
    /\ req.op = "login"
    /\ resp.error = ""
    /\ resp.data[1].user = [id |-> "1", username |-> "admin", role |-> "ADMIN"]

\* C10: the flagged field of every record of the collection is a boolean.
C10_FlaggedBoolean ==
    \A i \in 1..Len(employees) : employees[i].flagged \in {"true", "false"}

\* The arguments of the employees query, with the schema's defaults.
PageOf(args) == IF args.page = <<>> THEN 1 ELSE args.page[1]

PageSizeOf(args) == IF args.pageSize = <<>> THEN 10 ELSE args.pageSize[1]

\* A record satisfies every predicate whose field the filter supplies.
Satisfies(e, f) ==
    /\ "nameContains" \in DOMAIN f => includes(toLowerCase(e.name), toLowerCase(f.nameContains))
    /\ "className" \in DOMAIN f => e.className = f.className
    /\ "minAttendance" \in DOMAIN f => e.attendance >= f.minAttendance

Retained(list, filter) ==
    IF filter = <<>> THEN list ELSE SelectSeq(list, LAMBDA e : Satisfies(e, filter[1]))

\* C5: the filter step retains, in the original order, exactly the records
\* that satisfy every predicate whose field is supplied, whatever the value
\* supplied; no filter returns the whole collection.
C5_FilterByPresence ==
    req.op = "employees" =>
        /\ filterEmployees(employees, req.args.filter) = Retained(employees, req.args.filter)
        /\ resp.data[1].totalCount = Len(Retained(employees, req.args.filter))

\* C6 as stated: for every integer page and pageSize the items are at most
\* pageSize, and a start offset outside the list yields no item.
C6_AtMostPageSize ==
    req.op = "employees" =>
        LET start == (PageOf(req.args) - 1) * PageSizeOf(req.args)
        IN  /\ resp.error = ""
            /\ Len(resp.data[1].items) <= PageSizeOf(req.args)
            /\ (start < 0 \/ start >= resp.data[1].totalCount) => resp.data[1].items = <<>>

\* C6, amended: for every integer page and every pageSize >= 0 the items are
\* at most pageSize; for all integers page and pageSize a start offset at or
\* past the end of the list yields no item and no error.
C6_AtMostPageSizeNonNegative ==
    req.op = "employees" =>
        LET start == (PageOf(req.args) - 1) * PageSizeOf(req.args)
        IN  /\ resp.error = ""
            /\ PageSizeOf(req.args) >= 0 => Len(resp.data[1].items) <= PageSizeOf(req.args)
            /\ start >= resp.data[1].totalCount => resp.data[1].items = <<>>

\* A page past the end of a non-empty list is empty.
C6_Witness ==
    /\ req.op = "employees"
    /\ PageOf(req.args) = 3
    /\ PageSizeOf(req.args) = 2
    /\ resp.data[1].totalCount > 0
    /\ resp.data[1].items = <<>>

\* The position of a record in a list of records with distinct ids.
PositionIn(list, e) == CHOOSE i \in 1..Len(list) : list[i].id = e.id

KeysEqual(a, b, field) ==
    /\ ~jsLess(sortKey(a, field), sortKey(b, field), field)
    /\ ~jsLess(sortKey(b, field), sortKey(a, field), field)

\* C7: the sort step returns a permutation of the filtered list, ordered by
\* the key of the sort field in the order asked, in which records with equal
\* keys keep the relative order they had in the filtered list, also for DESC.
C7_StableSort ==
    (req.op = "employees" /\ req.args.sort # <<>>) =>
        LET in == filterEmployees(employees, req.args.filter)
            out == sortEmployees(in, req.args.sort)
            field == req.args.sort[1].field
            desc == req.args.sort[1].order = "DESC"
        IN  /\ Len(out) = Len(in)
            /\ \A i \in 1..Len(in) : \E j \in 1..Len(out) : out[j] = in[i]
            /\ \A i, j \in 1..Len(out) :
                  i < j =>
                     /\ IF desc
                        THEN ~jsLess(sortKey(out[i], field), sortKey(out[j], field), field)
                        ELSE ~jsLess(sortKey(out[j], field), sortKey(out[i], field), field)
                     /\ KeysEqual(out[i], out[j], field) =>
                            PositionIn(in, out[i]) < PositionIn(in, out[j])
            /\ (req.args.page = <<>> /\ req.args.pageSize = <<>> /\ Len(out) <= 10) =>
                   resp.data[1].items = out

\* A descending sort by name has listed two records whose names differ only
\* in case.
C7_Witness ==
    /\ req.op = "employees"
    /\ req.args.sort = <<[field |-> "NAME", order |-> "DESC"]>>
    /\ \E i \in 1..(Len(resp.data[1].items) - 1) :
          /\ resp.data[1].items[i].name # resp.data[1].items[i + 1].name
          /\ toLowerCase(resp.data[1].items[i].name) = toLowerCase(resp.data[1].items[i + 1].name)

====
